---- MODULE Spec2Model ----
(***************************************************************************)
(* Model of src/lib.rs: merge_documents / merge_documents_to, the merge of *)
(* several lopdf Documents into one.                                       *)
(*                                                                         *)
(* An ObjectId is modelled by its object number (after renumbering every   *)
(* number is distinct, so the BTreeMap order on (number, generation) is    *)
(* the order on numbers).  An Object is a Dictionary or a non-dictionary   *)
(* value; a Dictionary is a function from keys to values.  The lopdf       *)
(* primitives called by the code (renumber_objects_with, get_pages,        *)
(* Dictionary::extend/set/remove, type_name) are modelled by what they do  *)
(* at the call sites: renumber_objects_with gives the sorted ObjectIds the *)
(* numbers start, start+1, ... and rewrites the References; get_pages      *)
(* walks Root -> Pages -> Kids depth first.                                *)
(***************************************************************************)
EXTENDS Integers, Sequences, FiniteSets, TLC

\* Largest number of input documents of one call.
MaxDocs == 2

----------------------------------------------------------------------------
\* lopdf::Object values that occur inside dictionaries.

Name(s) == [tag |-> "Name", name |-> s, num |-> 0, arr |-> <<>>]

Integer(n) == [tag |-> "Integer", name |-> "", num |-> n, arr |-> <<>>]

Reference(id) == [tag |-> "Reference", name |-> "", num |-> id, arr |-> <<>>]

\* An Array of References, given by the ObjectIds it refers to.
Array(ids) == [tag |-> "Array", name |-> "", num |-> 0, arr |-> ids]

EmptyDict == [k \in {} |-> Name("")]

\* Object::Dictionary(d)
Dictionary(d) == [kind |-> "Dictionary", dict |-> d]

\* An indirect object that is not a dictionary (Object::Integer).
Scalar == [kind |-> "Integer", dict |-> EmptyDict]

\* Object::as_dict succeeds
IsDict(object) == object.kind = "Dictionary"

\* Dictionary::set(key, value)
DictSet(d, key, value) ==
  [k \in DOMAIN d \cup {key} |-> IF k = key THEN value ELSE d[k]]

\* Dictionary::remove(key)
DictRemove(d, key) == [k \in DOMAIN d \ {key} |-> d[k]]

\* A Dictionary::extend that keeps the receiver's entries.
DictExtendKeepSelf(self, other) ==
  [k \in DOMAIN self \cup DOMAIN other |->
     IF k \in DOMAIN self THEN self[k] ELSE other[k]]

\* Dictionary::extend(other): every entry of other is inserted into self,
\* replacing the entry self has under the same key.
DictExtend(self, other) ==
  [k \in DOMAIN self \cup DOMAIN other |->
     IF k \in DOMAIN other THEN other[k] ELSE self[k]]

\* Object::type_name().unwrap_or("")
TypeName(object) ==
  IF IsDict(object) /\ "Type" \in DOMAIN object.dict
     /\ object.dict["Type"].tag = "Name"
  THEN object.dict["Type"].name
  ELSE ""

\* BTreeMap::extend(other): insert every entry of other.
MapExtend(map, other) ==
  [k \in DOMAIN map \cup DOMAIN other |->
     IF k \in DOMAIN other THEN other[k] ELSE map[k]]

EmptyMap == [k \in {} |-> Scalar]

Min(S) == CHOOSE m \in S : \A x \in S : m <= x

\* The keys of a BTreeMap in iteration order (ascending).
RECURSIVE SortedKeys(_)
SortedKeys(S) ==
  IF S = {} THEN <<>>
  ELSE LET m == Min(S) IN <<m>> \o SortedKeys(S \ {m})

\* The ObjectIds a value refers to.
ValueRefs(v) ==
  IF v.tag = "Reference" THEN {v.num}
  ELSE IF v.tag = "Array" THEN {v.arr[j] : j \in DOMAIN v.arr}
  ELSE {}

DictRefs(d) == UNION {ValueRefs(d[k]) : k \in DOMAIN d}

----------------------------------------------------------------------------
\* Document::renumber_objects_with(starting_id)

\* The new number of an ObjectId: the ids of the object table, sorted, get
\* starting_id, starting_id + 1, ...; an id that is no key is left alone.
NewId(objects, starting_id, id) ==
  IF id \in DOMAIN objects
  THEN starting_id + Cardinality({j \in DOMAIN objects : j < id})
  ELSE id

RenumberValue(objects, starting_id, v) ==
  IF v.tag = "Reference" THEN Reference(NewId(objects, starting_id, v.num))
  ELSE IF v.tag = "Array"
  THEN Array([j \in DOMAIN v.arr |-> NewId(objects, starting_id, v.arr[j])])
  ELSE v

RenumberDict(objects, starting_id, d) ==
  [k \in DOMAIN d |-> RenumberValue(objects, starting_id, d[k])]

RenumberObject(objects, starting_id, object) ==
  [object EXCEPT !.dict = RenumberDict(objects, starting_id, object.dict)]

RenumberObjectsWith(doc, starting_id) ==
  LET old == doc.objects
      oldOf(new) == CHOOSE id \in DOMAIN old : NewId(old, starting_id, id) = new
      news == {NewId(old, starting_id, id) : id \in DOMAIN old}
  IN [objects |-> [n \in news |-> RenumberObject(old, starting_id, old[oldOf(n)])],
      trailer |-> RenumberDict(old, starting_id, doc.trailer),
      max_id  |-> starting_id + Cardinality(DOMAIN old) - 1]

----------------------------------------------------------------------------
\* Document::get_pages: the Page objects of the page tree, in page order.

\* The Kids of a page-tree node, as ObjectIds (empty when there are none).
KidsOf(doc, id) ==
  IF id \in DOMAIN doc.objects /\ IsDict(doc.objects[id])
     /\ "Kids" \in DOMAIN doc.objects[id].dict
     /\ doc.objects[id].dict["Kids"].tag = "Array"
  THEN doc.objects[id].dict["Kids"].arr
  ELSE <<>>

RECURSIVE CollectPages(_, _)
CollectPages(doc, kids) ==
  IF kids = <<>> THEN <<>>
  ELSE LET kid == Head(kids)
           here == IF kid \notin DOMAIN doc.objects THEN <<>>
                   ELSE IF TypeName(doc.objects[kid]) = "Page" THEN <<kid>>
                   ELSE IF TypeName(doc.objects[kid]) = "Pages"
                   THEN CollectPages(doc, KidsOf(doc, kid))
                   ELSE <<>>
       IN here \o CollectPages(doc, Tail(kids))

\* The sequence of page ObjectIds; get_pages numbers them 1, 2, ...
GetPages(doc) ==
  LET t == doc.trailer
      root == IF "Root" \in DOMAIN t /\ t["Root"].tag = "Reference"
              THEN t["Root"].num ELSE 0
      cat == IF root \in DOMAIN doc.objects /\ IsDict(doc.objects[root])
             THEN doc.objects[root].dict ELSE EmptyDict
  IN IF "Pages" \in DOMAIN cat /\ cat["Pages"].tag = "Reference"
     THEN CollectPages(doc, KidsOf(doc, cat["Pages"].num))
     ELSE <<>>

----------------------------------------------------------------------------
\* The input documents, as Document::load_mem hands them to the merge.

Doc(objects, trailer) ==
  [objects |-> objects, trailer |-> trailer,
   max_id |-> IF DOMAIN objects = {} THEN 0
              ELSE CHOOSE m \in DOMAIN objects : \A x \in DOMAIN objects : x <= m]

\* Two pages whose ObjectIds ascend in page order, and an untyped object.
DocPlain ==
  Doc( 1 :> Dictionary(("Type" :> Name("Catalog")) @@ ("Pages" :> Reference(2))
                       @@ ("Lang" :> Name("en")))
    @@ 2 :> Dictionary(("Type" :> Name("Pages")) @@ ("Kids" :> Array(<<3, 4>>))
                       @@ ("Count" :> Integer(2)) @@ ("MediaBox" :> Name("a4")))
    @@ 3 :> Dictionary(("Type" :> Name("Page")) @@ ("Parent" :> Reference(2))
                       @@ ("Contents" :> Reference(5)))
    @@ 4 :> Dictionary(("Type" :> Name("Page")) @@ ("Parent" :> Reference(2)))
    @@ 5 :> Scalar,
    "Root" :> Reference(1))

\* Page 1 has a higher ObjectId than page 2.
DocReversed ==
  Doc( 2 :> Dictionary(("Type" :> Name("Catalog")) @@ ("Pages" :> Reference(4))
                       @@ ("Lang" :> Name("de")))
    @@ 4 :> Dictionary(("Type" :> Name("Pages")) @@ ("Kids" :> Array(<<8, 6>>))
                       @@ ("Count" :> Integer(2)) @@ ("MediaBox" :> Name("letter")))
    @@ 6 :> Dictionary(("Type" :> Name("Page")) @@ ("Parent" :> Reference(4)))
    @@ 8 :> Dictionary(("Type" :> Name("Page")) @@ ("Parent" :> Reference(4))),
    "Root" :> Reference(2))

\* An outline tree, and a Font the Pages node refers to.
DocOutlined ==
  Doc( 1 :> Dictionary(("Type" :> Name("Catalog")) @@ ("Pages" :> Reference(3))
                       @@ ("Outlines" :> Reference(9)) @@ ("Lang" :> Name("it")))
    @@ 3 :> Dictionary(("Type" :> Name("Pages")) @@ ("Kids" :> Array(<<5>>))
                       @@ ("Count" :> Integer(1)) @@ ("MediaBox" :> Name("a5"))
                       @@ ("Resources" :> Reference(7)))
    @@ 5 :> Dictionary(("Type" :> Name("Page")) @@ ("Parent" :> Reference(3)))
    @@ 7 :> Dictionary("Type" :> Name("Font"))
    @@ 9 :> Dictionary(("Type" :> Name("Outlines")) @@ ("First" :> Reference(10)))
    @@ 10 :> Dictionary(("Type" :> Name("Outline")) @@ ("Parent" :> Reference(9))
                        @@ ("Dest" :> Reference(5))),
    "Root" :> Reference(1))

\* A page tree with an intermediate Pages node.
DocNested ==
  Doc( 1 :> Dictionary(("Type" :> Name("Catalog")) @@ ("Pages" :> Reference(2)))
    @@ 2 :> Dictionary(("Type" :> Name("Pages")) @@ ("Kids" :> Array(<<3, 5>>))
                       @@ ("Count" :> Integer(2)))
    @@ 3 :> Dictionary(("Type" :> Name("Pages")) @@ ("Parent" :> Reference(2))
                       @@ ("Kids" :> Array(<<4>>)) @@ ("Count" :> Integer(1))
                       @@ ("Rotate" :> Integer(90)))
    @@ 4 :> Dictionary(("Type" :> Name("Page")) @@ ("Parent" :> Reference(3)))
    @@ 5 :> Dictionary(("Type" :> Name("Page")) @@ ("Parent" :> Reference(2))),
    "Root" :> Reference(1))

\* A page tree that lists the same Page object twice.
DocRepeated ==
  Doc( 1 :> Dictionary(("Type" :> Name("Catalog")) @@ ("Pages" :> Reference(2)))
    @@ 2 :> Dictionary(("Type" :> Name("Pages")) @@ ("Kids" :> Array(<<3, 3>>))
                       @@ ("Count" :> Integer(2)))
    @@ 3 :> Dictionary(("Type" :> Name("Page")) @@ ("Parent" :> Reference(2))
                       @@ ("Contents" :> Reference(4))
                       @@ ("Resources" :> Reference(5)))
    @@ 4 :> Scalar
    @@ 5 :> Dictionary("Font" :> Reference(6))
    @@ 6 :> Dictionary("Type" :> Name("Font")),
    "Root" :> Reference(1))

\* A Catalog and nothing typed Pages.
DocNoPages ==
  Doc( 3 :> Dictionary(("Type" :> Name("Catalog")) @@ ("Lang" :> Name("fr")))
    @@ 5 :> Dictionary("Producer" :> Name("x")),
    ("Root" :> Reference(3)) @@ ("Info" :> Reference(5)))

\* A Pages node and a Page, no Catalog and no Root.
DocNoCatalog ==
  Doc( 1 :> Dictionary(("Type" :> Name("Pages")) @@ ("Kids" :> Array(<<2>>))
                       @@ ("Count" :> Integer(1)))
    @@ 2 :> Dictionary(("Type" :> Name("Page")) @@ ("Parent" :> Reference(1))),
    EmptyDict)

\* A Page object outside the page tree, referred to by an annotation.
DocStray ==
  Doc( 1 :> Dictionary(("Type" :> Name("Catalog")) @@ ("Pages" :> Reference(2)))
    @@ 2 :> Dictionary(("Type" :> Name("Pages")) @@ ("Kids" :> Array(<<3>>))
                       @@ ("Count" :> Integer(1)))
    @@ 3 :> Dictionary(("Type" :> Name("Page")) @@ ("Parent" :> Reference(2)))
    @@ 4 :> Dictionary(("Type" :> Name("Page")) @@ ("Parent" :> Reference(2)))
    @@ 5 :> Dictionary(("Type" :> Name("Annot")) @@ ("P" :> Reference(4))),
    "Root" :> Reference(1))

\* A document without pages.
DocEmptyTree ==
  Doc( 1 :> Dictionary(("Type" :> Name("Catalog")) @@ ("Pages" :> Reference(2)))
    @@ 2 :> Dictionary(("Type" :> Name("Pages")) @@ ("Kids" :> Array(<<>>))
                       @@ ("Count" :> Integer(0))),
    "Root" :> Reference(1))

InputDocs ==
  {DocPlain, DocReversed, DocOutlined, DocNested, DocRepeated, DocNoPages,
   DocNoCatalog, DocStray, DocEmptyTree}

\* The argument of mergePdf: up to MaxDocs decoded documents, in order.
Inputs == UNION {[1..n -> InputDocs] : n \in 0..MaxDocs}

----------------------------------------------------------------------------
VARIABLES
  pc,                 \* position in merge_documents / merge_documents_to
  documents,          \* the cloned input vector; documents[k], k <= idx, renumbered
  idx,                \* number of documents the first loop has consumed
  max_id,
  documents_pages,    \* BTreeMap<ObjectId, Object>
  documents_objects,  \* BTreeMap<ObjectId, Object>
  document,           \* the merged Document
  catalog_object,     \* Option<(ObjectId, Object)>
  pages_object,       \* Option<(ObjectId, Object)>
  it_objects,         \* last key visited by the loop over documents_objects
  it_pages,           \* last key visited by the loop over documents_pages
  stdout,             \* lines printed
  target,             \* what save_to wrote: nothing, or the saved Document
  js_result           \* what mergePdf returned to its caller

vars == <<pc, documents, idx, max_id, documents_pages, documents_objects,
          document, catalog_object, pages_object, it_objects, it_pages,
          stdout, target, js_result>>

None == [some |-> FALSE, id |-> 0, object |-> Scalar]

Some(id, object) == [some |-> TRUE, id |-> id, object |-> object]

EmptyDocument == [objects |-> EmptyMap, trailer |-> EmptyDict, max_id |-> 0]

NoBuffer == [written |-> FALSE, doc |-> EmptyDocument]

Init ==
  /\ pc = "renumber"
  /\ documents \in Inputs
  /\ idx = 0
  /\ max_id = 1
  /\ documents_pages = EmptyMap
  /\ documents_objects = EmptyMap
  /\ document = EmptyDocument
  /\ catalog_object = None
  /\ pages_object = None
  /\ it_objects = 0
  /\ it_pages = 0
  /\ stdout = <<>>
  /\ target = NoBuffer
  /\ js_result = [returned |-> FALSE, status |-> "", buffer |-> NoBuffer]

----------------------------------------------------------------------------
\* merge_documents_to, first loop (lines 80-96): one input document.

\* The seed of the next document's renumbering (line 82), not advanced.
SameSeed(doc_max_id) == doc_max_id

\* The seed of the next document's renumbering (line 82).
NextSeed(doc_max_id) == doc_max_id + 1

\* The (ObjectId, Object) pairs lines 83-94 collect from get_pages.
PagesOf(doc) ==
  LET pages == GetPages(doc)
  IN [id \in {pages[j] : j \in DOMAIN pages} |-> doc.objects[id]]

RenumberDocument ==
  /\ pc = "renumber"
  /\ idx < Len(documents)
  /\ LET doc == RenumberObjectsWith(documents[idx + 1], max_id)
     IN /\ documents' = [documents EXCEPT ![idx + 1] = doc]
        /\ max_id' = NextSeed(doc.max_id)
        /\ documents_pages' = MapExtend(documents_pages, PagesOf(doc))
        /\ documents_objects' = MapExtend(documents_objects, doc.objects)
  /\ idx' = idx + 1
  /\ UNCHANGED <<pc, document, catalog_object, pages_object, it_objects,
                 it_pages, stdout, target, js_result>>

\* Lines 97-101: the loop is over; the new Document and the two options.
NewDocument ==
  /\ pc = "renumber"
  /\ idx = Len(documents)
  /\ pc' = "classify"
  /\ document' = EmptyDocument
  /\ catalog_object' = None
  /\ pages_object' = None
  /\ UNCHANGED <<documents, idx, max_id, documents_pages, documents_objects,
                 it_objects, it_pages, stdout, target, js_result>>

----------------------------------------------------------------------------
\* Second loop (lines 103-145): one entry of documents_objects, by its type.

HasNext(map, last) == \E k \in DOMAIN map : k > last

NextKey(map, last) == Min({k \in DOMAIN map : k > last})

\* The match arms of lines 138-140, without the "Outline" arm.
IgnoredTypesNoOutline == {"Page", "Outlines"}

\* The type names the match of lines 138-140 ignores.
IgnoredTypes == {"Page", "Outlines", "Outline"}

\* The id kept by lines 110-114 and 129-133: the first one seen.
KeepFirst(option, object_id) == IF option.some THEN option.id ELSE object_id

ClassifyCatalog ==
  /\ pc = "classify"
  /\ HasNext(documents_objects, it_objects)
  /\ LET object_id == NextKey(documents_objects, it_objects)
         object == documents_objects[object_id]
     IN /\ TypeName(object) = "Catalog"
        /\ catalog_object' = Some(KeepFirst(catalog_object, object_id), object)
        /\ it_objects' = object_id
  /\ UNCHANGED <<pc, documents, idx, max_id, documents_pages,
                 documents_objects, document, pages_object, it_pages, stdout,
                 target, js_result>>

ClassifyPages ==
  /\ pc = "classify"
  /\ HasNext(documents_objects, it_objects)
  /\ LET object_id == NextKey(documents_objects, it_objects)
         object == documents_objects[object_id]
         dictionary == IF pages_object.some /\ IsDict(pages_object.object)
                       THEN DictExtend(object.dict, pages_object.object.dict)
                       ELSE object.dict
     IN /\ TypeName(object) = "Pages"
        /\ pages_object' =
             IF IsDict(object)
             THEN Some(KeepFirst(pages_object, object_id), Dictionary(dictionary))
             ELSE pages_object
        /\ it_objects' = object_id
  /\ UNCHANGED <<pc, documents, idx, max_id, documents_pages,
                 documents_objects, document, catalog_object, it_pages, stdout,
                 target, js_result>>

ClassifyIgnored ==
  /\ pc = "classify"
  /\ HasNext(documents_objects, it_objects)
  /\ LET object_id == NextKey(documents_objects, it_objects)
         object == documents_objects[object_id]
     IN /\ TypeName(object) \in IgnoredTypes
        /\ it_objects' = object_id
  /\ UNCHANGED <<pc, documents, idx, max_id, documents_pages,
                 documents_objects, document, catalog_object, pages_object,
                 it_pages, stdout, target, js_result>>

ClassifyOther ==
  /\ pc = "classify"
  /\ HasNext(documents_objects, it_objects)
  /\ LET object_id == NextKey(documents_objects, it_objects)
         object == documents_objects[object_id]
     IN /\ TypeName(object) \notin {"Catalog", "Pages"} \cup IgnoredTypes
        /\ document' = [document EXCEPT
                          !.objects = MapExtend(@, object_id :> object)]
        /\ it_objects' = object_id
  /\ UNCHANGED <<pc, documents, idx, max_id, documents_pages,
                 documents_objects, catalog_object, pages_object, it_pages,
                 stdout, target, js_result>>

----------------------------------------------------------------------------
\* Lines 146-150.

AbortNoPages ==
  /\ pc = "classify"
  /\ ~HasNext(documents_objects, it_objects)
  /\ ~pages_object.some
  /\ stdout' = Append(stdout, "Pages root not found.")
  /\ pc' = "return"
  /\ UNCHANGED <<documents, idx, max_id, documents_pages, documents_objects,
                 document, catalog_object, pages_object, it_objects, it_pages,
                 target, js_result>>

PagesFound ==
  /\ pc = "classify"
  /\ ~HasNext(documents_objects, it_objects)
  /\ pages_object.some
  /\ pc' = "pages"
  /\ UNCHANGED <<documents, idx, max_id, documents_pages, documents_objects,
                 document, catalog_object, pages_object, it_objects, it_pages,
                 stdout, target, js_result>>

\* The Parent of line 155, left as the source document had it.
KeepParent(dictionary, pages_id) == dictionary

\* Line 155: dictionary.set("Parent", pages id).
SetParent(dictionary, pages_id) ==
  DictSet(dictionary, "Parent", Reference(pages_id))

\* Third loop (lines 152-160): one entry of documents_pages.
InsertPage ==
  /\ pc = "pages"
  /\ HasNext(documents_pages, it_pages)
  /\ LET object_id == NextKey(documents_pages, it_pages)
         object == documents_pages[object_id]
     IN /\ document' =
             IF IsDict(object)
             THEN [document EXCEPT !.objects =
                     MapExtend(@, object_id :>
                       Dictionary(SetParent(object.dict, pages_object.id)))]
             ELSE document
        /\ it_pages' = object_id
  /\ UNCHANGED <<pc, documents, idx, max_id, documents_pages,
                 documents_objects, catalog_object, pages_object, it_objects,
                 stdout, target, js_result>>

\* Lines 161-165.
AbortNoCatalog ==
  /\ pc = "pages"
  /\ ~HasNext(documents_pages, it_pages)
  /\ ~catalog_object.some
  /\ stdout' = Append(stdout, "Catalog root not found.")
  /\ pc' = "return"
  /\ UNCHANGED <<documents, idx, max_id, documents_pages, documents_objects,
                 document, catalog_object, pages_object, it_objects, it_pages,
                 target, js_result>>

\* Lines 166-184: the new "Pages" with Count and Kids.
BuildPages ==
  /\ pc = "pages"
  /\ ~HasNext(documents_pages, it_pages)
  /\ catalog_object.some
  /\ document' =
       IF IsDict(pages_object.object)
       THEN [document EXCEPT !.objects =
               MapExtend(@, pages_object.id :>
                 Dictionary(
                   DictSet(DictSet(pages_object.object.dict, "Count",
                                   Integer(Cardinality(DOMAIN documents_pages))),
                           "Kids", Array(SortedKeys(DOMAIN documents_pages)))))]
       ELSE document
  /\ pc' = "catalog"
  /\ UNCHANGED <<documents, idx, max_id, documents_pages, documents_objects,
                 catalog_object, pages_object, it_objects, it_pages, stdout,
                 target, js_result>>

\* Lines 188-189 without the set of "Pages": only Outlines is removed.
CatalogDictOwnPages(dictionary, pages_id) == DictRemove(dictionary, "Outlines")

\* Lines 188-189: "Pages" is set to the designated id, "Outlines" removed.
CatalogDict(dictionary, pages_id) ==
  DictRemove(DictSet(dictionary, "Pages", Reference(pages_id)), "Outlines")

\* Lines 185-194: the new "Catalog" and the trailer's Root.
BuildCatalog ==
  /\ pc = "catalog"
  /\ LET objects ==
           IF IsDict(catalog_object.object)
           THEN MapExtend(document.objects, catalog_object.id :>
                  Dictionary(CatalogDict(catalog_object.object.dict,
                                         pages_object.id)))
           ELSE document.objects
     IN document' = [document EXCEPT
                       !.objects = objects,
                       !.trailer = DictSet(@, "Root", Reference(catalog_object.id))]
  /\ pc' = "save"
  /\ UNCHANGED <<documents, idx, max_id, documents_pages, documents_objects,
                 catalog_object, pages_object, it_objects, it_pages, stdout,
                 target, js_result>>

\* Lines 195-201: max_id, renumber_objects, (compress,) save_to.  document
\* keeps the graph as it was before the last renumbering; target receives the
\* renumbered one.
Save ==
  /\ pc = "save"
  /\ document' = [document EXCEPT !.max_id = Cardinality(DOMAIN document.objects)]
  /\ target' = [written |-> TRUE, doc |-> RenumberObjectsWith(document, 1)]
  /\ pc' = "return"
  /\ UNCHANGED <<documents, idx, max_id, documents_pages, documents_objects,
                 catalog_object, pages_object, it_objects, it_pages, stdout,
                 js_result>>

\* merge_documents, line 69: Ok(buffer made of target), whatever target holds.
Return ==
  /\ pc = "return"
  /\ js_result' = [returned |-> TRUE, status |-> "Ok", buffer |-> target]
  /\ pc' = "done"
  /\ UNCHANGED <<documents, idx, max_id, documents_pages, documents_objects,
                 document, catalog_object, pages_object, it_objects, it_pages,
                 stdout, target>>

Next ==
  \/ RenumberDocument
  \/ NewDocument
  \/ ClassifyCatalog
  \/ ClassifyPages
  \/ ClassifyIgnored
  \/ ClassifyOther
  \/ AbortNoPages
  \/ PagesFound
  \/ InsertPage
  \/ AbortNoCatalog
  \/ BuildPages
  \/ BuildCatalog
  \/ Save
  \/ Return

Spec == Init /\ [][Next]_vars

----------------------------------------------------------------------------
\* What the properties speak about.

\* The merge ran to its end and the merged graph was saved.
Merged == target.written

TypedIds(map, type_name) == {id \in DOMAIN map : TypeName(map[id]) = type_name}

\* The pages of the inputs: document 1's in page order, then document 2's, ...
RECURSIVE PagesUpTo(_)
PagesUpTo(k) == IF k = 0 THEN <<>> ELSE PagesUpTo(k - 1) \o GetPages(documents[k])

AllPages == PagesUpTo(Len(documents))

\* The Catalog the trailer of the merged graph leads to, and its Pages node.
MergedCatalogId == document.trailer["Root"].num

MergedPagesId == document.objects[MergedCatalogId].dict["Pages"].num

MergedPagesDict == document.objects[MergedPagesId].dict

\* No input document has a Reference to an object it does not hold.
InputsClosed ==
  \A k \in 1..Len(documents) :
    /\ DictRefs(documents[k].trailer) \subseteq DOMAIN documents[k].objects
    /\ \A id \in DOMAIN documents[k].objects :
         DictRefs(documents[k].objects[id].dict) \subseteq DOMAIN documents[k].objects

----------------------------------------------------------------------------
\* C1 - page-order preservation: after a successful merge the Kids of the
\* merged root Pages node are the pages of document 1 in page order, then
\* those of document 2, ...: the Nth Kids entry is the Nth page of the inputs.
PageOrderPreserved ==
  Merged => KidsOf(document, MergedPagesId) = AllPages

\* C2 - page-count preservation: after a successful merge the Count of the
\* merged root Pages node equals the length of its Kids and the sum of the
\* numbers of leaf pages the page trees of the inputs enumerate.
PageCountPreserved ==
  Merged =>
    /\ MergedPagesDict["Count"].num = Len(KidsOf(document, MergedPagesId))
    /\ MergedPagesDict["Count"].num = Len(AllPages)

\* C3 - failure reporting: when the inputs hold no object typed Pages the
\* caller gets a MissingPagesRoot error, when they hold none typed Catalog a
\* MissingCatalogRoot error; never a success result, and nothing is saved.
\* (Stated for a call with at least one document.)
FailureReported ==
  (js_result.returned /\ Len(documents) > 0) =>
    /\ TypedIds(documents_objects, "Pages") = {} =>
         js_result.status = "MissingPagesRoot" /\ ~target.written
    /\ (TypedIds(documents_objects, "Pages") # {}
        /\ TypedIds(documents_objects, "Catalog") = {}) =>
         js_result.status = "MissingCatalogRoot" /\ ~target.written

\* C4 - single root: after a successful merge exactly one object of the
\* merged graph is typed Catalog and exactly one is typed Pages; the trailer's
\* Root is that Catalog and the Catalog's Pages field is that Pages node.
SingleRoot ==
  Merged =>
    \E c, p \in DOMAIN document.objects :
      /\ TypedIds(document.objects, "Catalog") = {c}
      /\ TypedIds(document.objects, "Pages") = {p}
      /\ "Root" \in DOMAIN document.trailer
      /\ document.trailer["Root"] = Reference(c)
      /\ "Pages" \in DOMAIN document.objects[c].dict
      /\ document.objects[c].dict["Pages"] = Reference(p)

\* C4's case: a merge of inputs with several Catalogs and with more Pages
\* nodes than documents (an intermediate node among them) has ended.
SingleRootWitness ==
  /\ Merged
  /\ Cardinality(TypedIds(documents_objects, "Catalog")) >= 2
  /\ Cardinality(TypedIds(documents_objects, "Pages")) >= 3

\* C5 - reference closure: after a successful merge of inputs without
\* dangling References, every Reference inside an object of the merged graph
\* (and the trailer's Root) is the ObjectId of an object of the merged graph.
ReferenceClosure ==
  (Merged /\ InputsClosed) =>
    /\ DictRefs(document.trailer) \subseteq DOMAIN document.objects
    /\ \A id \in DOMAIN document.objects :
         DictRefs(document.objects[id].dict) \subseteq DOMAIN document.objects

\* C6 - parent correctness: after a successful merge every object typed Page
\* has a Parent equal to the ObjectId of the single merged root Pages node,
\* never that of another Pages node of the inputs.
ParentCorrect ==
  Merged =>
    /\ TypedIds(document.objects, "Pages") = {MergedPagesId}
    /\ \A id \in TypedIds(document.objects, "Page") :
         /\ "Parent" \in DOMAIN document.objects[id].dict
         /\ document.objects[id].dict["Parent"] = Reference(MergedPagesId)
         /\ document.objects[id].dict["Parent"].num \notin
              TypedIds(documents_objects, "Pages") \ {MergedPagesId}

\* C6's case: a merged page whose Parent in its source document was a Pages
\* node other than the merged root.
ParentCorrectWitness ==
  /\ Merged
  /\ \E id \in TypedIds(document.objects, "Page") :
       /\ documents_objects[id].dict["Parent"] # Reference(MergedPagesId)
       /\ documents_objects[id].dict["Parent"].num
            \in TypedIds(documents_objects, "Pages")

\* C7 - identity uniqueness: the first document is renumbered from 1, each
\* next one from the previous document's highest id plus one; the renumbered
\* documents have pairwise disjoint ObjectIds, and every object and every
\* harvested page is in the union under its id (nothing was overwritten).
IdentityUnique ==
  /\ pc = "renumber" =>
       max_id = IF idx = 0 THEN 1 ELSE documents[idx].max_id + 1
  /\ \A k \in 1..idx :
       DOMAIN documents[k].objects =
         (IF k = 1 THEN 1 ELSE documents[k - 1].max_id + 1)..documents[k].max_id
  /\ \A j, k \in 1..idx :
       j # k => DOMAIN documents[j].objects \cap DOMAIN documents[k].objects = {}
  /\ \A k \in 1..idx :
       /\ \A id \in DOMAIN documents[k].objects :
            /\ id \in DOMAIN documents_objects
            /\ documents_objects[id] = documents[k].objects[id]
       /\ \A n \in DOMAIN GetPages(documents[k]) :
            /\ GetPages(documents[k])[n] \in DOMAIN documents_pages
            /\ documents_pages[GetPages(documents[k])[n]]
                 = documents[k].objects[GetPages(documents[k])[n]]

\* C7's case: two documents with objects and pages have been renumbered.
IdentityUniqueWitness ==
  /\ idx >= 2
  /\ \A k \in 1..2 : DOMAIN documents[k].objects # {} /\ GetPages(documents[k]) # <<>>

\* The Pages objects the second loop has visited.
SeenPages ==
  {id \in TypedIds(documents_objects, "Pages") : id <= it_objects}

\* The value of key in the earliest of the Pages objects in ids that has it.
EarliestValue(ids, key) ==
  documents_objects[Min({id \in ids : key \in DOMAIN documents_objects[id].dict})].dict[key]

PagesKeys(ids) == UNION {DOMAIN documents_objects[id].dict : id \in ids}

\* C8 - Pages precedence: the designated root Pages id is that of the first
\* Pages object seen in ascending ObjectId order and stays so; for every key
\* but Kids and Count the accumulated and the merged Pages dictionary hold
\* the value of the earliest-seen Pages object that has the key; Kids and
\* Count of the result are the harvested pages and their number.
PagesPrecedence ==
  /\ pages_object.some <=> SeenPages # {}
  /\ SeenPages # {} =>
       /\ pages_object.id = Min(SeenPages)
       /\ DOMAIN pages_object.object.dict = PagesKeys(SeenPages)
       /\ \A key \in PagesKeys(SeenPages) \ {"Kids", "Count"} :
            pages_object.object.dict[key] = EarliestValue(SeenPages, key)
  /\ Merged =>
       /\ MergedPagesId = Min(TypedIds(documents_objects, "Pages"))
       /\ DOMAIN MergedPagesDict =
            PagesKeys(TypedIds(documents_objects, "Pages")) \cup {"Kids", "Count"}
       /\ \A key \in DOMAIN MergedPagesDict \ {"Kids", "Count"} :
            MergedPagesDict[key] =
              EarliestValue(TypedIds(documents_objects, "Pages"), key)
       /\ MergedPagesDict["Kids"] = Array(SortedKeys(DOMAIN documents_pages))
       /\ MergedPagesDict["Count"] = Integer(Cardinality(DOMAIN documents_pages))

\* C8's case: the merge has ended and two Pages objects of the inputs had
\* different values under a key that is neither Kids nor Count, and a later
\* one had a key the first one lacked.
PagesPrecedenceWitness ==
  /\ Merged
  /\ \E p, q \in TypedIds(documents_objects, "Pages") :
       /\ p < q
       /\ \E key \in (DOMAIN documents_objects[p].dict
                      \cap DOMAIN documents_objects[q].dict) \ {"Kids", "Count"} :
            documents_objects[p].dict[key] # documents_objects[q].dict[key]
       /\ DOMAIN documents_objects[q].dict \ DOMAIN documents_objects[p].dict # {}

\* C9 - Catalog designation: the merged Catalog is stored under the id of the
\* first Catalog seen in ascending ObjectId order and is that first Catalog's
\* dictionary with Pages set to the designated Pages id and Outlines removed;
\* later Catalogs change neither the id nor the fields.
CatalogFirstSeen ==
  Merged =>
    LET first == Min(TypedIds(documents_objects, "Catalog"))
    IN /\ MergedCatalogId = first
       /\ TypedIds(document.objects, "Catalog") = {first}
       /\ document.objects[first].dict =
            DictRemove(DictSet(documents_objects[first].dict, "Pages",
                               Reference(Min(TypedIds(documents_objects, "Pages")))),
                       "Outlines")

\* The ids of C10: passed through, harvested, designated.
PassedThroughIds ==
  {id \in DOMAIN documents_objects :
     TypeName(documents_objects[id])
       \notin {"Catalog", "Pages", "Page", "Outlines", "Outline"}}

HarvestedIds == {AllPages[n] : n \in DOMAIN AllPages}

\* C10 - classification and pass-through: after a successful merge every
\* input object typed none of Catalog, Pages, Page, Outlines, Outline is in
\* the merged graph unchanged under its renumbered id; nothing typed Outlines
\* or Outline is; a Page is only if harvested from a page tree; the keys are
\* the passed-through, the harvested and the two designated ids.
PassThroughExact ==
  Merged =>
    /\ \A id \in PassedThroughIds :
         id \in DOMAIN document.objects /\ document.objects[id] = documents_objects[id]
    /\ TypedIds(document.objects, "Outlines") = {}
    /\ TypedIds(document.objects, "Outline") = {}
    /\ TypedIds(document.objects, "Page") \subseteq HarvestedIds
    /\ DOMAIN document.objects =
         PassedThroughIds \cup HarvestedIds
           \cup {Min(TypedIds(documents_objects, "Pages")),
                 Min(TypedIds(documents_objects, "Catalog"))}

\* C10's case: the merge has ended and the inputs held objects passed
\* through, an outline tree, and a Page outside every page tree.
PassThroughExactWitness ==
  /\ Merged
  /\ PassedThroughIds # {}
  /\ TypedIds(documents_objects, "Outlines") # {}
  /\ TypedIds(documents_objects, "Outline") # {}
  /\ TypedIds(documents_objects, "Page") \ HarvestedIds # {}

====
